---- MODULE Spec2Model ----
(***************************************************************************)
(* The alias-swap reindex script of the code-agent repository:            *)
(* indexCodePathForRepo / generateSnapshot / switchAzureAISearchAlias,     *)
(* run against an Azure AI Search service that holds the indexes           *)
(* (collections) and one alias.  Context (hasIndex, clearIndex,            *)
(* indexCodebase) and FileSynchronizer (initialize, diff) belong to the    *)
(* core package, whose code is not among the sources; they are modelled    *)
(* from the design document (sections 4.2, 4.4, 4.5).                      *)
(* The module also holds, each with its own specification: the splitter    *)
(* (SpecSplit), the AzureAISearchVectorDatabase adapter (SpecInsert,       *)
(* SpecAdapter, SpecList), two script processes on one root (SpecTwo),     *)
(* the progress callback (SpecProg) and the embedding stage (SpecEmbed).   *)
(***************************************************************************)
EXTENDS Integers, FiniteSets, Sequences, TLC

\* ---------------------------------------------------------------- bounds
\* Wall-clock minutes the model covers; a timestamp is a minute 1..MaxClock.
MaxClock == 2
\* Number of times the script is started.
MaxRuns == 2
\* Number of edits made to the source tree by the developer.
MaxChanges == 1

\* ----------------------------------------------------------- value spaces
\* Relative paths of the files the tree may hold.
Paths == {"a.py", "b.cpp"}
\* Content digests; Absent stands for "no such file / no such document".
Absent == 0
Hashes == {1, 2}
\* The empty index name, "" in the script.
NoIndex == -1
\* Index (collection) names: hybrid_code_chunks_<repo>_<timestamp>; the name is
\* identified with its timestamp, 0 being an index built before the model starts.
Names == 0..MaxClock
\* Success statuses the service answers to the alias PUT.
OkStatuses == {200, 201, 204}

EmptyTree == [p \in Paths |-> Absent]
\* The trees the model starts from: one file, or none.
InitialTrees == {[p \in Paths |-> IF p = "a.py" THEN 1 ELSE Absent], EmptyTree}
NoSnapshot == [exists |-> FALSE, fileHashes |-> EmptyTree]
EmptyDiff == [added |-> {}, modified |-> {}, deleted |-> {}, unchanged |-> {}]
Present(t) == {p \in Paths : t[p] # Absent}

VARIABLES
  clock,          \* current wall-clock minute
  changes,        \* edits made to the tree so far
  runs,           \* script starts so far
  tree,           \* the source tree: path -> digest of its content
  indexes,        \* names of the indexes that exist in the service
  docs,           \* name -> path -> digest of the content whose chunks are held
  complete,       \* indexes whose build ended with every document written
  alias,          \* the alias's target, NoIndex when its index list is empty
  snapshot,       \* the persisted snapshot of the root
  pc,             \* position of the script
  collectionName, \* the run's index name
  oldIndexName,   \* switchAzureAISearchAlias: the target read from the alias
  status,         \* switchAzureAISearchAlias: status of the PUT response
  walk,           \* indexCodebase: fingerprints of the tree as walked
  base,           \* indexCodebase: the fingerprints the walk is compared with
  fileDiff,       \* indexCodebase: the classified diff
  todo,           \* indexCodebase: paths of the diff still to be applied
  run,            \* history of the current run
  split,          \* AstCodeSplitter.split: its input and the chunks it returns
  coll,           \* AzureAISearchVectorDatabase: the documents of the collection
  call,           \* AzureAISearchVectorDatabase: the last call and what it returned
  list,           \* listFilePaths: the enumeration in progress
  two,            \* two script processes started for the same root
  prog,           \* the progress callback of indexCodePathForRepo
  emb,            \* the embedding pipeline of indexCodebase
  names           \* AzureAISearchVectorDatabase: indexes by name, and the last call

\* The variables of the reindex script.
scriptVars == <<clock, changes, runs, tree, indexes, docs, complete, alias, snapshot,
                pc, collectionName, oldIndexName, status, walk, base, fileDiff, todo, run>>

\* The variables of the components studied on their own.
partVars == <<split, coll, call, list, two, prog, emb, names>>

vars == <<scriptVars, partVars>>

\* A component that is not running.
Idle == [op |-> "none"]

\* History of a run, reset when the script starts.
NewRun(al, ix, rep, ch) ==
  [aliasAtStart |-> al, targetAtStart |-> al \in ix, repeat |-> rep,
   startAt |-> ch, walkAt |-> -1, failedAt |-> "", idxReturned |-> FALSE,
   snapWrites |-> 0, aliasRead |-> FALSE, aliasWrites |-> 0,
   graceElapsed |-> FALSE, embedCalls |-> 0, storeWrites |-> 0,
   sameTarget |-> FALSE]

\* --------------------------------------------------------- FileSynchronizer
\* diff with "modified" decided by the hashes alone.
diffMutant(prev, cur) ==
  [added     |-> {p \in Present(cur) : prev[p] = Absent},
   modified  |-> {p \in Present(cur) : prev[p] # cur[p]},
   deleted   |-> {p \in Present(prev) : cur[p] = Absent},
   unchanged |-> {p \in Present(cur) : prev[p] = cur[p]}]

\* diff: classify every path of the previous snapshot and of the current walk.
diff(prev, cur) ==
  [added     |-> {p \in Present(cur) : prev[p] = Absent},
   modified  |-> {p \in Present(cur) : prev[p] # Absent /\ prev[p] # cur[p]},
   deleted   |-> {p \in Present(prev) : cur[p] = Absent},
   unchanged |-> {p \in Present(cur) : prev[p] # Absent /\ prev[p] = cur[p]}]

\* ------------------------------------------------------------------ Context
\* hasIndex: a Snapshot and a non-empty collection exist for the root.
hasIndex(c) ==
  snapshot.exists /\ c \in indexes /\ Present(docs[c]) # {}

\* ---------------------------------------------------------------------- Init
Init ==
  /\ clock = 1
  /\ changes = 0
  /\ runs = 0
  /\ tree \in InitialTrees
  /\ \E served \in BOOLEAN :
       IF served
         THEN /\ indexes = {0}
              /\ docs = [n \in Names |-> IF n = 0 THEN tree ELSE EmptyTree]
              /\ complete = {0}
              /\ alias = 0
              /\ snapshot = [exists |-> TRUE, fileHashes |-> tree]
         ELSE /\ indexes = {}
              /\ docs = [n \in Names |-> EmptyTree]
              /\ complete = {}
              /\ alias = NoIndex
              /\ snapshot = NoSnapshot
  /\ pc = "idle"
  /\ collectionName = NoIndex
  /\ oldIndexName = NoIndex
  /\ status = 0
  /\ walk = EmptyTree
  /\ base = EmptyTree
  /\ fileDiff = EmptyDiff
  /\ todo = {}
  /\ run = NewRun(NoIndex, {}, FALSE, 0)
  /\ split = Idle
  /\ coll = {}
  /\ call = Idle
  /\ list = Idle
  /\ two = Idle
  /\ prog = Idle
  /\ emb = Idle
  /\ names = Idle

\* -------------------------------------------------------------- environment
\* A minute passes.  The clock is read only when the script starts (new Date()
\* in indexCodePathForRepo), so time is let pass between the runs.
Tick ==
  /\ pc \in {"idle", "done", "failed"}
  /\ clock < MaxClock
  /\ clock' = clock + 1
  /\ UNCHANGED <<changes, runs, tree, indexes, docs, complete, alias, snapshot,
                 pc, collectionName, oldIndexName, status, walk, base, fileDiff,
                 todo, run>>
  /\ UNCHANGED partVars

\* The developer adds, edits or removes a file.
ChangeFile ==
  /\ changes < MaxChanges
  /\ \E p \in Paths, h \in Hashes \cup {Absent} :
       /\ h # tree[p]
       /\ tree' = [tree EXCEPT ![p] = h]
  /\ changes' = changes + 1
  /\ UNCHANGED <<clock, runs, indexes, docs, complete, alias, snapshot, pc,
                 collectionName, oldIndexName, status, walk, base, fileDiff,
                 todo, run>>
  /\ UNCHANGED partVars

\* ------------------------------------------------------ indexCodePathForRepo
\* The script starts: the timestamp (minute resolution) names the collection.
StartRun ==
  /\ pc \in {"idle", "done", "failed"}
  /\ runs < MaxRuns
  /\ runs' = runs + 1
  /\ collectionName' = clock
  /\ pc' = "hasIndex"
  /\ run' = NewRun(alias, indexes, pc = "done" /\ run.walkAt = changes, changes)
  /\ oldIndexName' = NoIndex
  /\ status' = 0
  /\ walk' = EmptyTree
  /\ base' = EmptyTree
  /\ fileDiff' = EmptyDiff
  /\ todo' = {}
  /\ UNCHANGED <<clock, changes, tree, indexes, docs, complete, alias, snapshot>>
  /\ UNCHANGED partVars

\* HasIndex with the existing index never found: nothing would be cleared.
HasIndexMutant ==
  /\ pc = "hasIndex"
  /\ pc' = "indexCodebase"
  /\ UNCHANGED <<clock, changes, runs, tree, indexes, docs, complete, alias,
                 snapshot, collectionName, oldIndexName, status, walk, base,
                 fileDiff, todo, run>>
  /\ UNCHANGED partVars

\* const hasExistingIndex = await context.hasIndex(codebasePath)
HasIndex ==
  /\ pc = "hasIndex"
  /\ pc' = IF hasIndex(collectionName) THEN "clearIndex" ELSE "indexCodebase"
  /\ UNCHANGED <<clock, changes, runs, tree, indexes, docs, complete, alias,
                 snapshot, collectionName, oldIndexName, status, walk, base,
                 fileDiff, todo, run>>
  /\ UNCHANGED partVars

\* clearIndex, first half: the root's collection is dropped.
ClearIndexDrop ==
  /\ pc = "clearIndex"
  /\ indexes' = indexes \ {collectionName}
  /\ docs' = [docs EXCEPT ![collectionName] = EmptyTree]
  /\ complete' = complete \ {collectionName}
  /\ run' = [run EXCEPT !.storeWrites = @ + 1]
  /\ pc' = "clearSnapshot"
  /\ UNCHANGED <<clock, changes, runs, tree, alias, snapshot, collectionName,
                 oldIndexName, status, walk, base, fileDiff, todo>>
  /\ UNCHANGED partVars

\* clearIndex, second half: the root's Snapshot is discarded.
ClearIndexSnapshot ==
  /\ pc = "clearSnapshot"
  /\ snapshot' = NoSnapshot
  /\ pc' = "indexCodebase"
  /\ UNCHANGED <<clock, changes, runs, tree, indexes, docs, complete, alias,
                 collectionName, oldIndexName, status, walk, base, fileDiff,
                 todo, run>>
  /\ UNCHANGED partVars

\* clearIndex fails (the service refuses or cannot be reached): the script ends.
ClearIndexThrow ==
  /\ pc = "clearIndex"
  /\ pc' = "failed"
  /\ run' = [run EXCEPT !.failedAt = "clearIndex"]
  /\ UNCHANGED <<clock, changes, runs, tree, indexes, docs, complete, alias,
                 snapshot, collectionName, oldIndexName, status, walk, base,
                 fileDiff, todo>>
  /\ UNCHANGED partVars

\* indexCodebase, start: the collection is created when missing, the tree is
\* walked and compared with the Snapshot of the root's index; where the root
\* has no index (the cold start, and the build from scratch of a reindex)
\* every file is new.
IndexStart ==
  /\ pc = "indexCodebase"
  /\ LET fresh == collectionName \notin indexes
         prev  == IF hasIndex(collectionName) THEN snapshot.fileHashes
                  ELSE EmptyTree
         d     == diff(prev, tree)
     IN /\ indexes' = indexes \cup {collectionName}
        /\ docs' = IF fresh THEN [docs EXCEPT ![collectionName] = EmptyTree]
                   ELSE docs
        /\ complete' = complete
        /\ walk' = tree
        /\ base' = prev
        /\ fileDiff' = d
        /\ todo' = d.added \cup d.modified \cup d.deleted
        /\ run' = [run EXCEPT !.walkAt = changes,
                              !.storeWrites = IF fresh THEN @ + 1 ELSE @]
  /\ pc' = "processing"
  /\ UNCHANGED <<clock, changes, runs, tree, alias, snapshot, collectionName,
                 oldIndexName, status>>
  /\ UNCHANGED partVars

\* indexCodebase, one path of the diff: a deleted path's documents are deleted,
\* an added or modified file is chunked, embedded and upserted.
IndexFile ==
  /\ pc = "processing"
  /\ \E p \in todo :
       /\ todo' = todo \ {p}
       /\ docs' = [docs EXCEPT ![collectionName][p] = walk[p]]
       /\ run' = [run EXCEPT
                    !.embedCalls = IF p \in fileDiff.deleted THEN @ ELSE @ + 1,
                    !.storeWrites = @ + 1]
  /\ UNCHANGED <<clock, changes, runs, tree, indexes, complete, alias, snapshot,
                 pc, collectionName, oldIndexName, status, walk, base, fileDiff>>
  /\ UNCHANGED partVars

\* IndexThrow with the error swallowed: the script would go on to the snapshot.
IndexThrowMutant ==
  /\ pc \in {"indexCodebase", "processing"}
  /\ pc' = "generateSnapshot"
  /\ run' = [run EXCEPT !.failedAt = "indexCodebase"]
  /\ UNCHANGED <<clock, changes, runs, tree, indexes, docs, complete, alias,
                 snapshot, collectionName, oldIndexName, status, walk, base,
                 fileDiff, todo>>
  /\ UNCHANGED partVars

\* indexCodebase aborts (embedding or store failure, collection limit): the
\* error leaves indexCodePathForRepo, nothing after it runs.
IndexThrow ==
  /\ pc \in {"indexCodebase", "processing"}
  /\ pc' = "failed"
  /\ run' = [run EXCEPT !.failedAt = "indexCodebase"]
  /\ UNCHANGED <<clock, changes, runs, tree, indexes, docs, complete, alias,
                 snapshot, collectionName, oldIndexName, status, walk, base,
                 fileDiff, todo>>
  /\ UNCHANGED partVars

\* indexCodebase returns: every path of the diff is applied, the diff is
\* committed to the Snapshot.
IndexReturn ==
  /\ pc = "processing"
  /\ todo = {}
  /\ complete' = complete \cup {collectionName}
  /\ snapshot' = [exists |-> TRUE, fileHashes |-> walk]
  /\ run' = [run EXCEPT !.idxReturned = TRUE, !.snapWrites = @ + 1]
  /\ pc' = "generateSnapshot"
  /\ UNCHANGED <<clock, changes, runs, tree, indexes, docs, alias,
                 collectionName, oldIndexName, status, walk, base, fileDiff, todo>>
  /\ UNCHANGED partVars

\* generateSnapshot: FileSynchronizer.initialize walks the tree again, hashes
\* every file and saves the snapshot.
GenerateSnapshot ==
  /\ pc = "generateSnapshot"
  /\ snapshot' = [exists |-> TRUE, fileHashes |-> tree]
  /\ run' = [run EXCEPT !.snapWrites = @ + 1]
  /\ pc' = "switchGet"
  /\ UNCHANGED <<clock, changes, runs, tree, indexes, docs, complete, alias,
                 collectionName, oldIndexName, status, walk, base, fileDiff, todo>>
  /\ UNCHANGED partVars

\* generateSnapshot fails: logged and rethrown.
GenerateSnapshotThrow ==
  /\ pc = "generateSnapshot"
  /\ pc' = "failed"
  /\ run' = [run EXCEPT !.failedAt = "generateSnapshot"]
  /\ UNCHANGED <<clock, changes, runs, tree, indexes, docs, complete, alias,
                 snapshot, collectionName, oldIndexName, status, walk, base,
                 fileDiff, todo>>
  /\ UNCHANGED partVars

\* -------------------------------------------------- switchAzureAISearchAlias
\* SwitchGet with the GET left out: the alias would be written unread.
SwitchGetMutant ==
  /\ pc = "switchGet"
  /\ pc' = "switchPut"
  /\ UNCHANGED <<clock, changes, runs, tree, indexes, docs, complete, alias,
                 snapshot, collectionName, oldIndexName, status, walk, base,
                 fileDiff, todo, run>>
  /\ UNCHANGED partVars

\* GET aliases('<alias>'): the first index of the answer, "" when there is none.
SwitchGet ==
  /\ pc = "switchGet"
  /\ oldIndexName' = alias
  /\ run' = [run EXCEPT !.aliasRead = TRUE,
                        !.sameTarget = (alias = collectionName)]
  /\ pc' = "switchPut"
  /\ UNCHANGED <<clock, changes, runs, tree, indexes, docs, complete, alias,
                 snapshot, collectionName, status, walk, base, fileDiff, todo>>
  /\ UNCHANGED partVars

\* PUT aliases('<alias>') {indexes: [newIndexName]}, answered with a success
\* status; only a status above 200 leads on to the deletion of the old index.
SwitchPut ==
  /\ pc = "switchPut"
  /\ \E st \in OkStatuses :
       /\ status' = st
       /\ pc' = IF st > 200 /\ st < 300 THEN "sleep" ELSE "done"
  /\ alias' = collectionName
  /\ run' = [run EXCEPT !.aliasWrites = @ + 1]
  /\ UNCHANGED <<clock, changes, runs, tree, indexes, docs, complete, snapshot,
                 collectionName, oldIndexName, walk, base, fileDiff, todo>>
  /\ UNCHANGED partVars

\* setTimeout(resolve, 10000): the grace period passes.
Sleep ==
  /\ pc = "sleep"
  /\ run' = [run EXCEPT !.graceElapsed = TRUE]
  /\ pc' = "deleteIndex"
  /\ UNCHANGED <<clock, changes, runs, tree, indexes, docs, complete, alias,
                 snapshot, collectionName, oldIndexName, status, walk, base,
                 fileDiff, todo>>
  /\ UNCHANGED partVars

\* indexClient.deleteIndex(oldIndexName) succeeds.  For a name that names no
\* index ("" included) the call has nothing to delete.
DeleteIndex ==
  /\ pc = "deleteIndex"
  /\ indexes' = indexes \ {oldIndexName}
  /\ docs' = IF oldIndexName \in Names
               THEN [docs EXCEPT ![oldIndexName] = EmptyTree] ELSE docs
  /\ complete' = complete \ {oldIndexName}
  /\ run' = [run EXCEPT !.storeWrites = @ + 1]
  /\ pc' = "done"
  /\ UNCHANGED <<clock, changes, runs, tree, alias, snapshot, collectionName,
                 oldIndexName, status, walk, base, fileDiff, todo>>
  /\ UNCHANGED partVars

\* A request of switchAzureAISearchAlias fails (GET, PUT or deleteIndex): the
\* catch block logs and rethrows.
SwitchThrow ==
  /\ pc \in {"switchGet", "switchPut", "deleteIndex"}
  /\ pc' = "failed"
  /\ run' = [run EXCEPT !.failedAt = pc]
  /\ UNCHANGED <<clock, changes, runs, tree, indexes, docs, complete, alias,
                 snapshot, collectionName, oldIndexName, status, walk, base,
                 fileDiff, todo>>
  /\ UNCHANGED partVars

Next ==
  \/ Tick
  \/ ChangeFile
  \/ StartRun
  \/ HasIndex
  \/ ClearIndexDrop
  \/ ClearIndexSnapshot
  \/ ClearIndexThrow
  \/ IndexStart
  \/ IndexFile
  \/ IndexThrow
  \/ IndexReturn
  \/ GenerateSnapshot
  \/ GenerateSnapshotThrow
  \/ SwitchGet
  \/ SwitchPut
  \/ Sleep
  \/ DeleteIndex
  \/ SwitchThrow

Spec == Init /\ [][Next]_vars

\* ------------------------------------------- indexCodebase on its own inputs
\* indexCodebase called on an existing collection, for every persisted Snapshot
\* and every tree over Paths (the incremental case of the orchestrator).
InitDiff ==
  /\ clock = 1
  /\ changes = 0
  /\ runs = 1
  /\ tree \in [Paths -> Hashes \cup {Absent}]
  /\ snapshot \in [exists : {TRUE}, fileHashes : [Paths -> Hashes \cup {Absent}]]
  /\ indexes = {1}
  /\ docs = [n \in Names |-> IF n = 1 THEN snapshot.fileHashes ELSE EmptyTree]
  /\ complete = {1}
  /\ alias = NoIndex
  /\ pc = "indexCodebase"
  /\ collectionName = 1
  /\ oldIndexName = NoIndex
  /\ status = 0
  /\ walk = EmptyTree
  /\ base = EmptyTree
  /\ fileDiff = EmptyDiff
  /\ todo = {}
  /\ run = NewRun(NoIndex, {}, FALSE, 0)
  /\ split = Idle
  /\ coll = {}
  /\ call = Idle
  /\ list = Idle
  /\ two = Idle
  /\ prog = Idle
  /\ emb = Idle
  /\ names = Idle

NextDiff ==
  \/ IndexStart
  \/ IndexFile
  \/ IndexReturn

SpecDiff == InitDiff /\ [][NextDiff]_vars

TypeOK ==
  /\ clock \in 1..MaxClock
  /\ tree \in [Paths -> Hashes \cup {Absent}]
  /\ indexes \subseteq Names
  /\ alias \in Names \cup {NoIndex}
  /\ complete \subseteq indexes
  /\ collectionName \in Names \cup {NoIndex}

\* =============================================================== AstCodeSplitter
\* The splitter is not among the sources (part_004 only calls it, with
\* maxChunkSize 20000 and overlapSize 300); it is modelled from section 4.3 of
\* the design document.  A file is the sequence of its lines, a line being
\* known by its number of characters; the top-level syntactic units are runs of
\* consecutive lines.

\* Longest file, in lines.
MaxLines == 3
\* Longest line, in characters.
MaxLineLen == 2
\* Largest maxChunkSize, in characters.
MaxChunkSize == 3
\* Largest overlapSize, in lines.
MaxOverlap == 2

\* Files: every sequence of at most MaxLines lines.
Contents == UNION {[1..n -> 0..MaxLineLen] : n \in 0..MaxLines}

\* Characters of the lines a..b joined by newlines.
RECURSIVE CharCount(_, _, _)
CharCount(content, a, b) ==
  IF a > b THEN 0
  ELSE IF a = b THEN content[a]
  ELSE content[a] + 1 + CharCount(content, a + 1, b)

\* The top-level units a parser finds: the runs of lines between the cuts.
Units(n, cuts) ==
  LET starts == {1} \cup {c + 1 : c \in cuts}
      endOf(a) == IF \E b \in starts : b > a
                    THEN (CHOOSE b \in starts : b > a /\ \A c \in starts : c > a => b <= c) - 1
                    ELSE n
      ordered == CHOOSE q \in [1..Cardinality(starts) -> starts] :
                   \A i, j \in 1..Cardinality(starts) : i < j => q[i] < q[j]
  IN IF n = 0 THEN <<>>
     ELSE [i \in 1..Cardinality(starts) |-> [first |-> ordered[i], last |-> endOf(ordered[i])]]

\* The last line of the window that starts at line a: as many lines of a..b as
\* fit in size characters, one line at least.
WindowEnd(content, a, b, size) ==
  LET fits == {k \in a..b : CharCount(content, a, k) <= size}
  IN IF fits = {} THEN a ELSE CHOOSE k \in fits : \A j \in fits : j <= k

\* Line-window splitting that lets a window grow one line past the size.
RECURSIVE splitByLinesMutant(_, _, _, _, _, _)
splitByLinesMutant(content, a, b, size, overlap, prevStart) ==
  IF a > b THEN <<>>
  ELSE LET k == IF WindowEnd(content, a, b, size) < b
                  THEN WindowEnd(content, a, b, size) + 1
                  ELSE b
           from == IF prevStart = 0 THEN a
                   ELSE IF a - overlap > prevStart THEN a - overlap ELSE prevStart
       IN <<[startLine |-> from, endLine |-> k]>>
            \o splitByLinesMutant(content, k + 1, b, size, overlap, from)

\* Line-window splitting of the lines a..b: windows of at most size characters,
\* each window after the first opened by the last overlap lines of the chunk
\* before it.  prevStart is the first line of the chunk before, 0 when none.
RECURSIVE splitByLines(_, _, _, _, _, _)
splitByLines(content, a, b, size, overlap, prevStart) ==
  IF a > b THEN <<>>
  ELSE LET k == WindowEnd(content, a, b, size)
           from == IF prevStart = 0 THEN a
                   ELSE IF a - overlap > prevStart THEN a - overlap ELSE prevStart
       IN <<[startLine |-> from, endLine |-> k]>>
            \o splitByLines(content, k + 1, b, size, overlap, from)

\* Greedy packing of the units i.. into chunks; open is the first line of the
\* chunk being packed, 0 when none is, and upTo its last line.
RECURSIVE pack(_, _, _, _, _, _, _)
pack(content, units, i, size, overlap, open, upTo) ==
  LET closed == IF open = 0 THEN <<>> ELSE <<[startLine |-> open, endLine |-> upTo]>>
  IN IF i > Len(units) THEN closed
     ELSE LET u == units[i]
          IN IF CharCount(content, u.first, u.last) > size
               THEN closed \o splitByLines(content, u.first, u.last, size, overlap, 0)
                      \o pack(content, units, i + 1, size, overlap, 0, 0)
             ELSE IF open # 0 /\ CharCount(content, open, u.last) <= size
               THEN pack(content, units, i + 1, size, overlap, open, u.last)
             ELSE closed \o pack(content, units, i + 1, size, overlap, u.first, u.last)

\* split: the chunks of a file, numbered in order.
splitContent(content, parsed, cuts, size, overlap) ==
  LET ranges == IF parsed
                  THEN pack(content, Units(Len(content), cuts), 1, size, overlap, 0, 0)
                  ELSE splitByLines(content, 1, Len(content), size, overlap, 0)
  IN [i \in 1..Len(ranges) |->
        [startLine |-> ranges[i].startLine, endLine |-> ranges[i].endLine,
         sequenceIndex |-> i - 1]]

\* The variables other than the splitter's.
notSplit == <<scriptVars, coll, call, list, two, prog, emb, names>>

SplitAtRest ==
  /\ clock = 1
  /\ changes = 0
  /\ runs = 0
  /\ tree = EmptyTree
  /\ indexes = {}
  /\ docs = [n \in Names |-> EmptyTree]
  /\ complete = {}
  /\ alias = NoIndex
  /\ snapshot = NoSnapshot
  /\ pc = "idle"
  /\ collectionName = NoIndex
  /\ oldIndexName = NoIndex
  /\ status = 0
  /\ walk = EmptyTree
  /\ base = EmptyTree
  /\ fileDiff = EmptyDiff
  /\ todo = {}
  /\ run = NewRun(NoIndex, {}, FALSE, 0)

\* A splitter constructed with (maxChunkSize, overlapSize) and about to be
\* given a file: any content, parsed into any units or not parsed at all.
InitSplit ==
  /\ SplitAtRest
  /\ coll = {}
  /\ call = Idle
  /\ list = Idle
  /\ two = Idle
  /\ prog = Idle
  /\ emb = Idle
  /\ names = Idle
  /\ \E content \in Contents, parsed \in BOOLEAN, size \in 1..MaxChunkSize,
        overlap \in 0..MaxOverlap :
       \E cuts \in SUBSET (1..(Len(content) - 1)) :
         /\ ~parsed => cuts = {}
         /\ split = [op |-> "new", content |-> content, parsed |-> parsed,
                     cuts |-> cuts, maxChunkSize |-> size, overlapSize |-> overlap,
                     chunks |-> <<>>]

\* codeSplitter.split(content, language, filePath)
Split ==
  /\ split.op = "new"
  /\ split' = [split EXCEPT !.op = "split",
                 !.chunks = splitContent(split.content, split.parsed, split.cuts,
                                         split.maxChunkSize, split.overlapSize)]
  /\ UNCHANGED notSplit

NextSplit ==
  \/ Split

SpecSplit == InitSplit /\ [][NextSplit]_vars

\* =================================================== AzureAISearchVectorDatabase
\* The adapter of azure-ai-search.ts over one index of the service, driven as
\* testAzureSearch (part_002) drives it.  The service keeps the documents of
\* the index keyed by their id field.

\* Longest array of documents given to insert.
MaxBatch == 3

Ids == {"doc1", "doc2"}
RelativePaths == {"src/auth/login.ts", "src/database/connection.py"}
Texts == {"text1", "text2"}
Metadata == {[source |-> "test"]}

\* VectorDocument, as the caller builds it.
VectorDocuments ==
  [id : Ids, content : Texts, relativePath : RelativePaths, metadata : Metadata]

\* JSON.stringify(doc.metadata)
stringify(metadata) ==
  CASE metadata.source = "test" -> "{\"source\":\"test\"}"

\* insert: the document in the index's format.
AzureDocument(doc) ==
  [id |-> doc.id, content |-> doc.content, relativePath |-> doc.relativePath,
   metadata |-> stringify(doc.metadata)]

\* The file each id belongs to: an id names a chunk of one file.
TestPath ==
  [id \in Ids |-> IF id = "doc1" THEN "src/auth/login.ts" ELSE "src/database/connection.py"]

\* The documents given to insert: a chunk of its file, with some content.
InsertedDocuments == {doc \in VectorDocuments : doc.relativePath = TestPath[doc.id]}

\* Arrays of at most MaxBatch documents.
Batches == UNION {[1..n -> InsertedDocuments] : n \in 0..MaxBatch}

\* uploadDocuments that adds a document without replacing the one of its id.
RECURSIVE uploadDocumentsMutant(_, _, _)
uploadDocumentsMutant(index, actions, i) ==
  IF i > Len(actions) THEN index
  ELSE LET a == actions[i]
           next == IF a.action = "delete"
                     THEN {d \in index : d.id # a.document.id}
                     ELSE index \cup {a.document}
       IN uploadDocumentsMutant(next, actions, i + 1)

\* searchClient.uploadDocuments(documents): the service applies the actions
\* i.. of the batch in order; "upload" inserts the document or replaces the one
\* of the same id, "delete" removes the document of that id.
RECURSIVE uploadDocuments(_, _, _)
uploadDocuments(index, actions, i) ==
  IF i > Len(actions) THEN index
  ELSE LET a == actions[i]
           next == IF a.action = "delete"
                     THEN {d \in index : d.id # a.document.id}
                     ELSE {d \in index : d.id # a.document.id} \cup {a.document}
       IN uploadDocuments(next, actions, i + 1)

\* insert(collectionName, documents)
insert(index, documents) ==
  uploadDocuments(index,
                  [i \in 1..Len(documents) |->
                     [action |-> "upload", document |-> AzureDocument(documents[i])]],
                  1)

\* The variables other than the collection and the last call.
notAdapter == <<scriptVars, split, list, two, prog, emb, names>>

\* A collection just created: testAzureSearch after createCollection.
InitInsert ==
  /\ SplitAtRest
  /\ split = Idle
  /\ coll = {}
  /\ call = Idle
  /\ list = Idle
  /\ two = Idle
  /\ prog = Idle
  /\ emb = Idle
  /\ names = Idle

\* azureClient.insert(COLLECTION_NAME, vectorDocuments)
Insert ==
  /\ \E documents \in Batches :
       /\ coll' = insert(coll, documents)
       /\ call' = [op |-> "insert", documents |-> documents,
                   replaced |-> \E i \in 1..Len(documents), d \in coll :
                                  /\ d.id = documents[i].id
                                  /\ d # AzureDocument(documents[i])]
  /\ UNCHANGED notAdapter

NextInsert ==
  \/ Insert

SpecInsert == InitInsert /\ [][NextInsert]_vars

\* ------------------------------------------------- query, delete, by path
\* The documents an index can hold, and the indexes: one document per id.
AzureDocuments == {AzureDocument(doc) : doc \in VectorDocuments}
Collections == {c \in SUBSET AzureDocuments : \A d, e \in c : d.id = e.id => d = e}

\* query's limit when the caller gives none.
DefaultLimit == 16384
\* The limit testAzureSearch gives to query.
TestLimit == 10
\* Limits given to query; 0 stands for none given.
Limits == {0, 1, TestLimit}

\* An array holding the elements of a set.
ArrayOf(set) ==
  CHOOSE q \in [1..Cardinality(set) -> set] :
    \A i, j \in 1..Cardinality(set) : i # j => q[i] # q[j]

\* query(collectionName, "relativePath eq '<path>'", ["id"], limit): the results
\* the service may answer, top: limit || 16384 of the documents that match.
query(index, path, limit) ==
  LET match == {d \in index : d.relativePath = path}
      top == IF limit = 0 THEN DefaultLimit ELSE limit
      n == IF Cardinality(match) < top THEN Cardinality(match) ELSE top
  IN {r \in SUBSET match : Cardinality(r) = n}

\* delete(collectionName, ids): one delete action per id, uploaded as a batch.
delete(index, ids) ==
  uploadDocuments(index,
                  [i \in 1..Len(ids) |->
                     [action |-> "delete", document |-> [id |-> ids[i]]]],
                  1)

\* A collection holding any documents.
InitAdapter ==
  /\ SplitAtRest
  /\ split = Idle
  /\ coll \in Collections
  /\ call = Idle
  /\ list = Idle
  /\ two = Idle
  /\ prog = Idle
  /\ emb = Idle
  /\ names = Idle

\* testAzureSearch, step 5: query the ids of the documents of a path, then
\* delete those ids when there are any.
DeleteByPath ==
  /\ \E path \in RelativePaths, limit \in Limits :
       \E documentsToDelete \in query(coll, path, limit) :
         LET idsToDelete == ArrayOf({d.id : d \in documentsToDelete})
         IN /\ coll' = IF Len(idsToDelete) > 0 THEN delete(coll, idsToDelete) ELSE coll
            /\ call' = [op |-> "deleteByPath", path |-> path, limit |-> limit,
                        deleted |-> Len(idsToDelete)]
  /\ UNCHANGED notAdapter

\* ------------------------------------------------------- createCollection
\* What createOrUpdateIndex may answer: success, or an error of some cause
\* carrying a message, given as the sequence of its words.
CreateOutcomes ==
  {[cause |-> "none", message |-> <<>>],
   [cause |-> "capacity",
    message |-> <<"Index", "quota", "has", "been", "exceeded", "for", "this", "service">>],
   [cause |-> "capacity", message |-> <<"Index", "Quota", "Exceeded">>],
   [cause |-> "rateLimit", message |-> <<"Rate", "limit", "is", "exceeded">>],
   [cause |-> "rateLimit",
    message |-> <<"You", "are", "sending", "too", "many", "requests">>],
   [cause |-> "timeout", message |-> <<"Request", "timeout", "exceeded">>],
   [cause |-> "timeout", message |-> <<"The", "operation", "was", "aborted">>],
   [cause |-> "credentials", message |-> <<"Forbidden">>]}

\* The i flag of the pattern: a word in lower case.
lowerCase(word) ==
  CASE word = "Quota" -> "quota"
    [] word = "Exceeded" -> "exceeded"
    [] word = "Index" -> "index"
    [] word = "Rate" -> "rate"
    [] word = "Request" -> "request"
    [] word = "You" -> "you"
    [] word = "The" -> "the"
    [] word = "Forbidden" -> "forbidden"
    [] OTHER -> word

\* /limit|quota|exceeded/i.test(errorMessage)
limitPattern(message) ==
  \E i \in 1..Len(message) : lowerCase(message[i]) \in {"limit", "quota", "exceeded"}

\* createCollection: the index is created or its schema updated; an error whose
\* message matches the pattern is replaced by COLLECTION_LIMIT_MESSAGE, any
\* other error is logged and rethrown.
CreateCollection ==
  /\ \E outcome \in CreateOutcomes :
       call' = [op |-> "createCollection", cause |-> outcome.cause,
                thrown |-> IF outcome.cause = "none" THEN "none"
                           ELSE IF limitPattern(outcome.message)
                             THEN "COLLECTION_LIMIT_MESSAGE"
                           ELSE "error"]
  /\ UNCHANGED <<coll, notAdapter>>

\* ------------------------------------------------------------------ search
\* topK when the caller gives none.
DefaultTopK == 10
\* The topK of the test's verification search.
TestTopK == 5
\* The number of results the service returns when the request names no top.
ServiceDefaultTop == 50
\* topK values given to search; 0 stands for none given.
TopKs == {0, 1, TestTopK}
\* options.type; "none" stands for no type given.
SearchTypes == {"vector", "text", "hybrid", "none"}
\* options.filterExpr: none, blank, or relativePath eq '<path>'.
NoFilter == [kind |-> "none"]
FilterExprs ==
  {NoFilter, [kind |-> "blank"]} \cup {[kind |-> "eq", path |-> p] : p \in RelativePaths}

\* The searchOptions search builds: top is set in the vector and in the text
\* branch only; the filter is set after the branches when it is not blank.
searchOptions(type, topK, filterExpr) ==
  LET k == IF topK = 0 THEN DefaultTopK ELSE topK
  IN [top    |-> IF type \in {"vector", "text"} THEN k ELSE 0,
      filter |-> IF filterExpr.kind = "eq" THEN filterExpr ELSE NoFilter]

\* searchClient.search(text, searchOptions): the results the service may
\* answer, the first top (50 when the request names none) of the documents
\* that pass the filter.
searchResults(index, options) ==
  LET match == IF options.filter.kind = "eq"
                 THEN {d \in index : d.relativePath = options.filter.path}
                 ELSE index
      top == IF options.top = 0 THEN ServiceDefaultTop ELSE options.top
      n == IF Cardinality(match) < top THEN Cardinality(match) ELSE top
  IN {r \in SUBSET match : Cardinality(r) = n}

\* search(collectionName, queryVector, options)
Search ==
  /\ \E type \in SearchTypes, topK \in TopKs, filterExpr \in FilterExprs :
       \E results \in searchResults(coll, searchOptions(type, topK, filterExpr)) :
         call' = [op |-> "search", type |-> type, topK |-> topK,
                  filterExpr |-> filterExpr, results |-> results]
  /\ UNCHANGED <<coll, notAdapter>>

NextAdapter ==
  \/ DeleteByPath
  \/ CreateCollection
  \/ Search

SpecAdapter == InitAdapter /\ [][NextAdapter]_vars

\* ------------------------------------------------------------ listFilePaths
\* Largest batchSize given to listFilePaths.
MaxBatchSize == 3

\* Documents whose relativePath may also be the empty string.
ListedDocuments ==
  [id : Ids, content : {"text1"}, relativePath : RelativePaths \cup {""},
   metadata : {stringify([source |-> "test"])}]
ListedCollections ==
  {c \in SUBSET ListedDocuments : \A d, e \in c : d.id = e.id => d = e}

\* The order in which the service lists documents of equal score, taken to be
\* the same for every request.
IdRank == [id \in Ids |-> IF id = "doc1" THEN 1 ELSE 2]

pathsOf(index) == {d.relativePath : d \in index}

\* A page that is one document short.
PageMutant(index, top, skip) ==
  {d \in index :
     LET pos == Cardinality({e \in index : IdRank[e.id] <= IdRank[d.id]})
     IN pos > skip /\ pos < skip + top}

\* searchClient.search("", {select, top, skip}): the documents at the positions
\* skip+1 .. skip+top of the listing.
Page(index, top, skip) ==
  {d \in index :
     LET pos == Cardinality({e \in index : IdRank[e.id] <= IdRank[d.id]})
     IN pos > skip /\ pos <= skip + top}

notList == <<scriptVars, split, call, two, prog, emb, names>>

InitList ==
  /\ SplitAtRest
  /\ split = Idle
  /\ coll \in ListedCollections
  /\ call = Idle
  /\ list = Idle
  /\ two = Idle
  /\ prog = Idle
  /\ emb = Idle
  /\ names = Idle

\* listFilePaths(collectionName, batchSize): filePaths = new Set(), skip = 0.
\* present and seen record the paths held during the whole enumeration and at
\* some time of it, changed whether the collection was written meanwhile.
ListStart ==
  /\ list.op \in {"none", "returned"}
  /\ \E batchSize \in 1..MaxBatchSize :
       list' = [op |-> "listing", batchSize |-> batchSize, skip |-> 0,
                filePaths |-> {}, present |-> pathsOf(coll), seen |-> pathsOf(coll),
                changed |-> FALSE]
  /\ UNCHANGED <<coll, notList>>

\* One turn of the while loop: a page is fetched, its non-empty paths are
\* added, skip advances, and the loop ends on an empty or short page.
ListPage ==
  /\ list.op = "listing"
  /\ LET results == Page(coll, list.batchSize, list.skip)
     IN IF Cardinality(results) = 0
          THEN list' = [list EXCEPT !.op = "returned"]
          ELSE list' = [list EXCEPT
                 !.filePaths = @ \cup {d.relativePath : d \in {r \in results : r.relativePath # ""}},
                 !.skip = @ + list.batchSize,
                 !.op = IF Cardinality(results) < list.batchSize
                          THEN "returned" ELSE "listing"]
  /\ UNCHANGED <<coll, notList>>

\* Another client uploads a document while the enumeration awaits a page.
ConcurrentUpload ==
  /\ list.op = "listing"
  /\ \E d \in ListedDocuments :
       coll' = uploadDocuments(coll, <<[action |-> "upload", document |-> d]>>, 1)
  /\ coll' # coll
  /\ list' = [list EXCEPT !.changed = TRUE,
                          !.present = @ \cap pathsOf(coll'),
                          !.seen = @ \cup pathsOf(coll')]
  /\ UNCHANGED notList

\* Another client deletes a document while the enumeration awaits a page.
ConcurrentDelete ==
  /\ list.op = "listing"
  /\ \E id \in Ids : coll' = delete(coll, <<id>>)
  /\ coll' # coll
  /\ list' = [list EXCEPT !.changed = TRUE,
                          !.present = @ \cap pathsOf(coll'),
                          !.seen = @ \cup pathsOf(coll')]
  /\ UNCHANGED notList

NextList ==
  \/ ListStart
  \/ ListPage
  \/ ConcurrentUpload
  \/ ConcurrentDelete

SpecList == InitList /\ [][NextList]_vars

\* ===================================================== two runs for one root
\* Two processes run indexCodePathForRepo for the same root (same repository,
\* same snapshot file, same alias).  The script holds no lock of its own; the
\* orchestrator's detection of an overlapping run (section 5 of the design
\* document) is modelled inside indexCodebase, where a run begins.
Procs == {1, 2}
InProgress == {"hasIndex", "clearIndex", "indexCodebase", "processing",
               "generateSnapshot", "switchAlias"}

notTwo == <<scriptVars, split, coll, call, list, prog, emb, names>>

\* Both processes not started; the root indexed before, or never.
InitTwo ==
  /\ SplitAtRest
  /\ split = Idle
  /\ coll = {}
  /\ call = Idle
  /\ list = Idle
  /\ prog = Idle
  /\ emb = Idle
  /\ names = Idle
  /\ \E indexed \in BOOLEAN :
       two = [op |-> "two",
              pc |-> [p \in Procs |-> "idle"],
              second |-> [p \in Procs |-> FALSE],
              touched |-> [p \in Procs |-> {}],
              found |-> [p \in Procs |-> FALSE],
              registry |-> 0,
              snapshotExists |-> indexed,
              collectionFilled |-> indexed]

\* indexCodePathForRepo is entered: names are computed, the Context is built.
\* second records that the other process's run was in progress at that time.
TwoStart(p) ==
  /\ two.pc[p] = "idle"
  /\ two' = [two EXCEPT !.pc[p] = "hasIndex",
                        !.second[p] = \E q \in Procs \ {p} : two.pc[q] \in InProgress]
  /\ UNCHANGED notTwo

\* context.hasIndex(codebasePath): reads the snapshot and the collection.
TwoHasIndex(p) ==
  /\ two.pc[p] = "hasIndex"
  /\ LET has == two.snapshotExists /\ two.collectionFilled
     IN two' = [two EXCEPT !.found[p] = has,
                           !.touched[p] = @ \cup {"snapshot", "collection"},
                           !.pc[p] = IF has THEN "clearIndex" ELSE "indexCodebase"]
  /\ UNCHANGED notTwo

\* context.clearIndex(codebasePath): drops the collection and the snapshot.
TwoClearIndex(p) ==
  /\ two.pc[p] = "clearIndex"
  /\ two' = [two EXCEPT !.snapshotExists = FALSE,
                        !.collectionFilled = FALSE,
                        !.touched[p] = @ \cup {"snapshot", "collection"},
                        !.pc[p] = "indexCodebase"]
  /\ UNCHANGED notTwo

\* context.indexCodebase is entered: the run is registered, or rejected when a
\* run for the root is registered already.
TwoIndexEnter(p) ==
  /\ two.pc[p] = "indexCodebase"
  /\ two' = IF two.registry = 0
              THEN [two EXCEPT !.registry = p, !.pc[p] = "processing"]
              ELSE [two EXCEPT !.pc[p] = "rejected"]
  /\ UNCHANGED notTwo

\* context.indexCodebase returns: documents written, snapshot committed, the
\* run removed from the registry.
TwoIndexReturn(p) ==
  /\ two.pc[p] = "processing"
  /\ two' = [two EXCEPT !.collectionFilled = TRUE,
                        !.snapshotExists = TRUE,
                        !.registry = 0,
                        !.touched[p] = @ \cup {"snapshot", "collection"},
                        !.pc[p] = "generateSnapshot"]
  /\ UNCHANGED notTwo

\* generateSnapshot(codebasePath): the snapshot is written anew.
TwoGenerateSnapshot(p) ==
  /\ two.pc[p] = "generateSnapshot"
  /\ two' = [two EXCEPT !.snapshotExists = TRUE,
                        !.touched[p] = @ \cup {"snapshot"},
                        !.pc[p] = "switchAlias"]
  /\ UNCHANGED notTwo

\* switchAzureAISearchAlias(aliasName, collectionName)
TwoSwitchAlias(p) ==
  /\ two.pc[p] = "switchAlias"
  /\ two' = [two EXCEPT !.touched[p] = @ \cup {"alias"},
                        !.pc[p] = "done"]
  /\ UNCHANGED notTwo

NextTwo ==
  \/ \E p \in Procs : TwoStart(p)
  \/ \E p \in Procs : TwoHasIndex(p)
  \/ \E p \in Procs : TwoClearIndex(p)
  \/ \E p \in Procs : TwoIndexEnter(p)
  \/ \E p \in Procs : TwoIndexReturn(p)
  \/ \E p \in Procs : TwoGenerateSnapshot(p)
  \/ \E p \in Procs : TwoSwitchAlias(p)

SpecTwo == InitTwo /\ [][NextTwo]_vars

\* ========================================================= progress reports
\* The progress callback indexCodePathForRepo gives to indexCodebase, and the
\* calls the orchestrator makes to it.  The orchestrator is not among the
\* sources: its calls are modelled from sections 4.4 and 6 of the design
\* document (at most one call per throttling interval, and a last call at 100%
\* whatever the timing).  Times are in milliseconds.

\* Length of a run, in steps of the clock.
MaxTicks == 4
\* One step of the clock.
Quantum == 30000
\* Date.now() when the run starts.
Epoch == 1000000000
LOG_INTERVAL == 1 * 60 * 1000
Percentages == {0, 50, 100}
\* Throttling intervals the orchestrator may be configured with.
ThrottleIntervals == {Quantum, 2 * Quantum}

notProg == <<scriptVars, split, coll, call, list, two, emb, names>>

\* The callback: a line is logged when LOG_INTERVAL has passed since the last
\* line.  reports counts the lines, reported is the percentage of the last
\* one, spaced tells that no two lines were less than LOG_INTERVAL apart.
onProgress(p, percentage) ==
  IF p.now - p.lastLogTime >= LOG_INTERVAL
    THEN [p EXCEPT !.reports = @ + 1,
                   !.reported = percentage,
                   !.spaced = @ /\ (p.reports = 0 \/ p.now - p.lastLogTime >= LOG_INTERVAL),
                   !.lastLogTime = p.now]
    ELSE p

\* let lastLogTime = 0; context.indexCodebase(codebasePath, callback) begins.
InitProg ==
  /\ SplitAtRest
  /\ split = Idle
  /\ coll = {}
  /\ call = Idle
  /\ list = Idle
  /\ two = Idle
  /\ emb = Idle
  /\ names = Idle
  /\ \E interval \in ThrottleIntervals :
       prog = [op |-> "running", now |-> Epoch, ticks |-> 0, lastLogTime |-> 0,
               throttle |-> interval, calls |-> 0, lastCall |-> 0, percentage |-> 0,
               reports |-> 0, reported |-> -1, spaced |-> TRUE]

\* Time passes during the run.
ProgTick ==
  /\ prog.op = "running"
  /\ prog.ticks < MaxTicks
  /\ prog' = [prog EXCEPT !.now = @ + Quantum, !.ticks = @ + 1]
  /\ UNCHANGED notProg

\* The orchestrator calls the callback during the run, at most once per
\* throttling interval.
ProgCall ==
  /\ prog.op = "running"
  /\ prog.calls = 0 \/ prog.now - prog.lastCall >= prog.throttle
  /\ \E percentage \in Percentages :
       /\ percentage >= prog.percentage
       /\ prog' = onProgress([prog EXCEPT !.calls = @ + 1, !.lastCall = prog.now,
                                          !.percentage = percentage],
                             percentage)
  /\ UNCHANGED notProg

\* The run completes: the orchestrator calls the callback a last time with
\* 100%, whatever the time since its previous call.
ProgComplete ==
  /\ prog.op = "running"
  /\ prog' = onProgress([prog EXCEPT !.op = "completed", !.calls = @ + 1,
                                     !.lastCall = prog.now, !.percentage = 100],
                        100)
  /\ UNCHANGED notProg

NextProg ==
  \/ ProgTick
  \/ ProgCall
  \/ ProgComplete

SpecProg == InitProg /\ [][NextProg]_vars

\* ======================================================== embedding pipeline
\* The Processing stage of indexCodebase: the batches of the diff are sent to
\* the EmbeddingProvider with bounded parallelism and each batch is upserted
\* when its vectors arrive.  Neither the orchestrator nor the provider is among
\* the sources; the stage is modelled from sections 4.4, 5 and 7 of the design
\* document.  A batch holds one chunk, whose document id is the batch number.

\* Batches of the diff.
MaxBatches == 2
\* Retries allowed to one embedding call.
MaxRetries == 2
\* Largest concurrency limit.
MaxConcurrency == 2

EmbBatches == 1..MaxBatches
Settled == {"upserted", "failed"}

inFlight(e) == Cardinality({b \in EmbBatches : e.status[b] = "inflight"})

\* A retry policy that retries whatever the error.
shouldRetryMutant(kind, attempts) ==
  attempts <= MaxRetries

\* The retry policy: a transient error is retried while retries are left, any
\* other error is not.  attempts counts the calls made so far for the batch.
shouldRetry(kind, attempts) ==
  kind = "transient" /\ attempts <= MaxRetries

\* A scheduler that lets one request too many start.
mayStartMutant(e) ==
  inFlight(e) <= e.limit

\* A request may start while fewer than the limit are in flight.
mayStart(e) ==
  inFlight(e) < e.limit

notEmb == <<scriptVars, split, coll, call, list, two, prog, names>>

\* A run enters Processing with every batch waiting and an empty collection.
InitEmbed ==
  /\ SplitAtRest
  /\ split = Idle
  /\ coll = {}
  /\ call = Idle
  /\ list = Idle
  /\ two = Idle
  /\ prog = Idle
  /\ names = Idle
  /\ \E limit \in 1..MaxConcurrency :
       emb = [op |-> "running", limit |-> limit,
              status |-> [b \in EmbBatches |-> "pending"],
              attempts |-> [b \in EmbBatches |-> 0],
              lastError |-> [b \in EmbBatches |-> "none"],
              chunksFailed |-> 0,
              store |-> {}]

\* An embedding request is issued for a waiting batch.
EmbedSend(b) ==
  /\ emb.op = "running"
  /\ emb.status[b] = "pending"
  /\ mayStart(emb)
  /\ emb' = [emb EXCEPT !.status[b] = "inflight", !.attempts[b] = @ + 1]
  /\ UNCHANGED notEmb

\* The provider answers with the vectors.
EmbedOk(b) ==
  /\ emb.status[b] = "inflight"
  /\ emb' = [emb EXCEPT !.status[b] = "embedded"]
  /\ UNCHANGED notEmb

\* The provider answers with an error, or the call times out: the batch waits
\* for its retry, or is counted as failed when the error is transient and the
\* retries are spent; any other error is fatal and aborts the run.
EmbedError(b) ==
  /\ emb.status[b] = "inflight"
  /\ \E kind \in {"transient", "fatal"} :
       emb' = IF shouldRetry(kind, emb.attempts[b])
                THEN [emb EXCEPT !.status[b] = "pending", !.lastError[b] = kind]
                ELSE [emb EXCEPT !.status[b] = "failed", !.lastError[b] = kind,
                                 !.chunksFailed = @ + 1,
                                 !.op = IF kind = "fatal" THEN "aborted" ELSE @]
  /\ UNCHANGED notEmb

\* The documents of an embedded batch are upserted; work in flight when the
\* run aborts is let complete.
EmbedUpsert(b) ==
  /\ emb.status[b] = "embedded"
  /\ emb' = [emb EXCEPT
       !.status[b] = "upserted",
       !.store = uploadDocuments(emb.store,
                                 <<[action |-> "upload", document |-> [id |-> b]]>>, 1)]
  /\ UNCHANGED notEmb

\* Every batch is settled: the run goes on to commit.
EmbedComplete ==
  /\ emb.op = "running"
  /\ \A b \in EmbBatches : emb.status[b] \in Settled
  /\ emb' = [emb EXCEPT !.op = "completed"]
  /\ UNCHANGED notEmb

NextEmbed ==
  \/ \E b \in EmbBatches : EmbedSend(b)
  \/ \E b \in EmbBatches : EmbedOk(b)
  \/ \E b \in EmbBatches : EmbedError(b)
  \/ \E b \in EmbBatches : EmbedUpsert(b)
  \/ EmbedComplete

SpecEmbed == InitEmbed /\ [][NextEmbed]_vars

\* Every call is subject to a timeout and the orchestrator keeps scheduling
\* while work is left: a step that can be taken is taken.
FairSpecEmbed == SpecEmbed /\ WF_vars(NextEmbed)

\* ========================================================= collection names
\* Collection names given to the adapter, a name being its characters in order.
CollectionNames ==
  {<<"T", "e", "s", "t">>, <<"t", "e", "s", "t">>, <<"T", "E", "S", "T">>,
   <<"d", "o", "c", "s">>}

\* A name passed on as it was given.
toLowerCaseMutant(cName) == cName

\* collectionName.toLowerCase()
toLowerCase(cName) ==
  [i \in DOMAIN cName |->
     CASE cName[i] = "T" -> "t"
       [] cName[i] = "E" -> "e"
       [] cName[i] = "S" -> "s"
       [] OTHER -> cName[i]]

\* Statuses of the errors the index client may throw.
ErrorStatuses == {404, 500}

\* What a call to the service may end with: 0 for success, else the status of
\* the error thrown.  The service, which compares index names as they are,
\* answers 404 exactly when no index has the name.
serviceAnswers(existing, indexName) ==
  (IF indexName \in existing THEN {0} ELSE {404}) \cup (ErrorStatuses \ {404})

\* The variables other than the named indexes.
notNames == <<scriptVars, split, coll, call, list, two, prog, emb>>

\* A service with no index.
InitNames ==
  /\ SplitAtRest
  /\ split = Idle
  /\ coll = {}
  /\ call = Idle
  /\ list = Idle
  /\ two = Idle
  /\ prog = Idle
  /\ emb = Idle
  /\ names = [op |-> "none", existing |-> {},
              held |-> [n \in CollectionNames |-> {}]]

\* The outcomes of createCollection(cName, ...):
\* indexClient.createOrUpdateIndex({name: lowerCaseCollectionName, ...}), an
\* index that exists keeping its documents; an error is rethrown.
createCollection(service, cName) ==
  LET lowerCaseCollectionName == toLowerCase(cName)
  IN {[op |-> "createCollection", name |-> cName, returned |-> "void",
       thrown |-> error,
       existing |-> IF error = 0
                      THEN service.existing \cup {lowerCaseCollectionName}
                      ELSE service.existing,
       held |-> service.held] : error \in {0} \cup (ErrorStatuses \ {404})}

\* The outcomes of dropCollection(cName):
\* indexClient.deleteIndex(lowerCaseCollectionName); an error is logged and rethrown.
dropCollection(service, cName) ==
  LET lowerCaseCollectionName == toLowerCase(cName)
  IN {[op |-> "dropCollection", name |-> cName, returned |-> "void",
       thrown |-> error,
       existing |-> IF error = 0
                      THEN service.existing \ {lowerCaseCollectionName}
                      ELSE service.existing,
       held |-> IF error = 0
                  THEN [service.held EXCEPT ![lowerCaseCollectionName] = {}]
                  ELSE service.held] :
      error \in serviceAnswers(service.existing, lowerCaseCollectionName)}

\* The outcomes of hasCollection(cName): true when
\* indexClient.getIndex(lowerCaseCollectionName) returns, false when it throws
\* with statusCode 404, else the error is logged and rethrown.
hasCollection(service, cName) ==
  LET lowerCaseCollectionName == toLowerCase(cName)
  IN {[op |-> "hasCollection", name |-> cName, statusCode |-> error,
       returned |-> IF error = 0 THEN "true"
                    ELSE IF error = 404 THEN "false" ELSE "none",
       thrown |-> IF error = 404 THEN 0 ELSE error,
       existing |-> service.existing, held |-> service.held] :
      error \in serviceAnswers(service.existing, lowerCaseCollectionName)}

\* The outcomes of insert(cName, [doc]): the document is uploaded through
\* getSearchClient(lowerCaseCollectionName).
insertInto(service, cName, doc) ==
  LET lowerCaseCollectionName == toLowerCase(cName)
  IN {[op |-> "insert", name |-> cName, returned |-> "void", thrown |-> error,
       existing |-> service.existing,
       held |-> IF error = 0
                  THEN [service.held EXCEPT ![lowerCaseCollectionName] =
                          insert(@, <<doc>>)]
                  ELSE service.held] :
      error \in serviceAnswers(service.existing, lowerCaseCollectionName)}

\* The outcomes of query(cName, "relativePath eq '<path>'", ["id"]): the
\* documents of the path read through getSearchClient(lowerCaseCollectionName).
queryOn(service, cName, path) ==
  LET lowerCaseCollectionName == toLowerCase(cName)
  IN {[op |-> "query", name |-> cName, thrown |-> error,
       returned |-> IF error = 0 THEN results ELSE {},
       existing |-> service.existing, held |-> service.held] :
      error \in serviceAnswers(service.existing, lowerCaseCollectionName),
      results \in query(service.held[lowerCaseCollectionName], path, 0)}

\* The outcomes of delete(cName, [id]): the delete action is uploaded through
\* getSearchClient(lowerCaseCollectionName).
deleteFrom(service, cName, id) ==
  LET lowerCaseCollectionName == toLowerCase(cName)
  IN {[op |-> "delete", name |-> cName, returned |-> "void", thrown |-> error,
       existing |-> service.existing,
       held |-> IF error = 0
                  THEN [service.held EXCEPT ![lowerCaseCollectionName] =
                          delete(@, <<id>>)]
                  ELSE service.held] :
      error \in serviceAnswers(service.existing, lowerCaseCollectionName)}

\* The outcomes of listFilePaths(cName, batchSize): the paths of the documents
\* read through getSearchClient(lowerCaseCollectionName), the index being left
\* alone during the enumeration.
listFilePaths(service, cName) ==
  LET lowerCaseCollectionName == toLowerCase(cName)
  IN {[op |-> "listFilePaths", name |-> cName, thrown |-> error,
       returned |-> IF error = 0
                      THEN pathsOf(service.held[lowerCaseCollectionName])
                      ELSE {},
       existing |-> service.existing, held |-> service.held] :
      error \in serviceAnswers(service.existing, lowerCaseCollectionName)}

NamesCreateCollection ==
  /\ \E cName \in CollectionNames : names' \in createCollection(names, cName)
  /\ UNCHANGED notNames

NamesDropCollection ==
  /\ \E cName \in CollectionNames : names' \in dropCollection(names, cName)
  /\ UNCHANGED notNames

NamesHasCollection ==
  /\ \E cName \in CollectionNames : names' \in hasCollection(names, cName)
  /\ UNCHANGED notNames

NamesInsert ==
  /\ \E cName \in CollectionNames, doc \in InsertedDocuments :
       names' \in insertInto(names, cName, doc)
  /\ UNCHANGED notNames

NamesQuery ==
  /\ \E cName \in CollectionNames, path \in RelativePaths :
       names' \in queryOn(names, cName, path)
  /\ UNCHANGED notNames

NamesDelete ==
  /\ \E cName \in CollectionNames, id \in Ids :
       names' \in deleteFrom(names, cName, id)
  /\ UNCHANGED notNames

NamesListFilePaths ==
  /\ \E cName \in CollectionNames : names' \in listFilePaths(names, cName)
  /\ UNCHANGED notNames

NextNames ==
  \/ NamesCreateCollection
  \/ NamesDropCollection
  \/ NamesHasCollection
  \/ NamesInsert
  \/ NamesQuery
  \/ NamesDelete
  \/ NamesListFilePaths

SpecNames == InitNames /\ [][NextNames]_vars

\* ====================================================================== claims

\* C1: in every reachable state of the reindex flow, repeated runs included, the
\* collection the alias resolves to exists and is fully built (not cleared, not
\* partly populated, not deleted).
C1_AliasTargetBuilt ==
  alias # NoIndex => alias \in indexes /\ alias \in complete

\* C2: when indexCodebase or generateSnapshot fails, the alias is as it was when
\* the reindex started: no alias write was issued and the collection the alias
\* targeted has not been deleted.
C2_FailedBuildKeepsAlias ==
  (pc = "failed" /\ run.failedAt \in {"indexCodebase", "generateSnapshot"})
    => /\ run.aliasWrites = 0
       /\ alias = run.aliasAtStart
       /\ (run.targetAtStart => alias \in indexes)

\* C3: the alias is written only after indexCodebase has returned for the run's
\* collection and after the alias's target has been read, and the write takes
\* the alias from its old target to the new collection in one step.
C3_AliasWriteOrder ==
  [][(alias' # alias \/ run'.aliasWrites > run.aliasWrites)
       => /\ run.idxReturned
          /\ collectionName \in complete
          /\ run.aliasRead
          /\ oldIndexName = alias
          /\ alias' = collectionName]_vars

C3_Witness ==
  pc = "sleep" /\ run.aliasWrites = 1 /\ alias = collectionName /\ oldIndexName = 0

\* C4: switchAzureAISearchAlias deletes only the old collection, only after the
\* alias write has succeeded and the grace period has passed, and never a
\* collection the alias still targets.
C4_DeleteOrder ==
  [][(pc = "deleteIndex" /\ indexes' # indexes)
       => /\ indexes \ indexes' = {oldIndexName}
          /\ run.aliasWrites > 0
          /\ run.graceElapsed
          /\ alias # oldIndexName]_vars

\* C5: once switchAzureAISearchAlias has returned after a successful alias
\* write, whatever the success status, the old collection is gone and the new
\* one remains.
C5_OldDeletedAfterSwap ==
  (pc = "done" /\ run.aliasWrites > 0 /\ oldIndexName # NoIndex
     /\ oldIndexName # collectionName)
    => oldIndexName \notin indexes /\ collectionName \in indexes

\* C6: a second switchAzureAISearchAlias(alias, new) made when an earlier call
\* has already written the alias to new ends with the alias at new and the
\* collection new in existence.
C6_SwitchIdempotent ==
  (pc \in {"done", "failed"} /\ run.sameTarget /\ run.aliasWrites > 0)
    => alias = collectionName /\ collectionName \in indexes

\* C7: generateSnapshot is not started, and no snapshot is written, before
\* indexCodebase has returned; a run whose indexCodebase aborts writes no
\* snapshot.
C7_SnapshotAfterIndex ==
  /\ pc = "generateSnapshot" => run.idxReturned
  /\ run.snapWrites > 0 => run.idxReturned
  /\ run.failedAt = "indexCodebase" => run.snapWrites = 0

C7_Witness ==
  pc = "failed" /\ run.failedAt = "indexCodebase" /\ run.embedCalls > 0

\* C8: every path whose fingerprint the persisted snapshot records has the
\* chunks of exactly that content in the store.
C8_SnapshotInStore ==
  snapshot.exists =>
    \A p \in Present(snapshot.fileHashes) :
      \E c \in indexes : docs[c][p] = snapshot.fileHashes[p]

C11_Core(i) ==
  LET c == split.chunks[i]
  IN [first |-> IF i = 1 THEN c.startLine ELSE split.chunks[i - 1].endLine + 1,
      last  |-> c.endLine]

C12_InsertUpsert ==
  [][/\ \A d, e \in coll' : d.id = e.id => d = e
     /\ call'.op = "insert" =>
          LET b == call'.documents
              last(id) == CHOOSE i \in 1..Len(b) :
                            b[i].id = id /\ \A j \in 1..Len(b) : b[j].id = id => j <= i
          IN /\ \A i \in 1..Len(b) : AzureDocument(b[last(b[i].id)]) \in coll'
             /\ \A d \in coll' :
                  (\A i \in 1..Len(b) : b[i].id # d.id) => d \in coll
             /\ \A d \in coll :
                  (\A i \in 1..Len(b) : b[i].id # d.id) => d \in coll'
     /\ (call.op = "insert" /\ call'.op = "insert"
           /\ call'.documents = call.documents) => coll' = coll]_vars

\* An insert has replaced a document held under the same id with other content.
C12_Witness ==
  /\ call.op = "insert"
  /\ call.replaced
  /\ Len(call.documents) = MaxBatch
  /\ Cardinality(coll) = Cardinality(Ids)

\* ------------------------------------------------------------------- C13
\* C13: deleting the documents of a path (query the ids, delete them) removes
\* every document of that path whatever their number, and leaves the documents
\* of every other path as they were.
C13_DeleteByPathFrame ==
  [][call'.op = "deleteByPath" =>
       /\ \A d \in coll' : d.relativePath # call'.path
       /\ \A d \in coll : d.relativePath # call'.path => d \in coll'
       /\ coll' \subseteq coll]_vars

\* ------------------------------------------------------------------- C14
\* C14 (as stated): for any contents and any batchSize >= 1 listFilePaths ends
\* and returns exactly the set of the relativePath values of the collection,
\* and under concurrent inserts and deletes no path that is in the collection
\* during the whole enumeration is missing from the result.
C14_ListExact ==
  /\ list.op = "listing" /\ ~list.changed => list.skip <= Cardinality(coll)
  /\ list.op = "returned" =>
       /\ ~list.changed => list.filePaths = pathsOf(coll)
       /\ list.present \subseteq list.filePaths

\* C14 (amended): with no write during the enumeration listFilePaths ends
\* within count/batchSize + 1 requests and returns exactly the non-empty
\* relativePath values of the collection; with concurrent writes it returns
\* only non-empty paths the collection held at some time of the enumeration.
C14_ListExactQuiet ==
  /\ list.op = "listing" /\ ~list.changed => list.skip <= Cardinality(coll)
  /\ list.op = "returned" =>
       /\ ~list.changed => list.filePaths = pathsOf(coll) \ {""}
       /\ list.filePaths \subseteq list.seen \ {""}

\* An undisturbed enumeration has returned after several full pages, the
\* document count being a multiple of batchSize.
C14_Witness ==
  /\ list.op = "returned"
  /\ ~list.changed
  /\ list.batchSize = 1
  /\ Cardinality(coll) = 2
  /\ Cardinality(list.filePaths) = 2

\* ------------------------------------------------------------------- C15
\* C15: createCollection raises COLLECTION_LIMIT_MESSAGE exactly when the
\* service's capacity for indexes is reached and the original error for every
\* other failure; a rate-limit response is never reported as the collection
\* limit.
C15_LimitExactly ==
  call.op = "createCollection" =>
    /\ (call.thrown = "COLLECTION_LIMIT_MESSAGE") = (call.cause = "capacity")
    /\ call.cause \notin {"none", "capacity"} => call.thrown = "error"
    /\ (call.thrown = "none") = (call.cause = "none")

\* ------------------------------------------------------------------- C16
\* C16: in every mode (vector, text, hybrid, none given) search returns at most
\* topK results, 10 when topK is not given, and only documents that pass the
\* filter expression.
C16_SearchTopKFilter ==
  call.op = "search" =>
    /\ Cardinality(call.results)
         <= (IF call.topK = 0 THEN DefaultTopK ELSE call.topK)
    /\ call.filterExpr.kind = "eq" =>
         \A r \in call.results : r.relativePath = call.filterExpr.path

\* ------------------------------------------------------------------- C17
\* C17: two runs for one root never overlap: a run started while another run
\* for the root is in progress is rejected before it reads or writes the
\* snapshot, the collection or the alias.
C17_SecondRunRejected ==
  \A p \in Procs :
    two.op = "two" /\ two.second[p] =>
      /\ two.touched[p] = {}
      /\ two.pc[p] \in {"hasIndex", "rejected"}

C19_RetryTransient ==
  emb.op \in {"running", "completed", "aborted"} =>
    /\ \A b \in EmbBatches :
         /\ emb.attempts[b] <= MaxRetries + 1
         /\ emb.lastError[b] = "fatal" => emb.status[b] = "failed"
         /\ emb.status[b] = "upserted" =>
              Cardinality({d \in emb.store : d.id = b}) = 1
         /\ emb.status[b] \in {"pending", "inflight", "embedded", "failed"} =>
              Cardinality({d \in emb.store : d.id = b}) = 0
    /\ emb.chunksFailed = Cardinality({b \in EmbBatches : emb.status[b] = "failed"})
    /\ (emb.op = "completed" /\ \A b \in EmbBatches : emb.status[b] = "upserted")
         => emb.chunksFailed = 0

\* A run has completed with no failed chunk after a batch was retried.
C19_Witness ==
  /\ emb.op = "completed"
  /\ emb.chunksFailed = 0
  /\ \E b \in EmbBatches :
       /\ emb.lastError[b] = "transient"
       /\ emb.attempts[b] = 2
       /\ emb.status[b] = "upserted"

\* ------------------------------------------------------------------- C20
\* C20 (as stated): at every point of a run the embedding requests in flight
\* are at most the concurrency limit, and every batch of the diff is
\* eventually embedded and upserted or counted as failed.
C20_BoundedAllSettled ==
  /\ [](emb.op # "none" => inFlight(emb) <= emb.limit)
  /\ <>(emb.op # "none" /\ \A b \in EmbBatches : emb.status[b] \in Settled)

\* C20 (amended): the requests in flight are at most the concurrency limit;
\* every run ends, completed or aborted by a fatal error, and in a run that
\* completes every batch has been embedded and upserted or counted as failed.
C20_BoundedSettledUnlessAborted ==
  /\ [](emb.op # "none" => inFlight(emb) <= emb.limit)
  /\ <>(emb.op \in {"completed", "aborted"})
  /\ [](emb.op = "completed" => \A b \in EmbBatches : emb.status[b] \in Settled)

\* As many requests as the limit allows are in flight while a batch waits.
C20_Witness ==
  /\ emb.op = "running"
  /\ emb.limit < MaxBatches
  /\ inFlight(emb) = emb.limit
  /\ \E b \in EmbBatches : emb.status[b] = "pending"

\* ------------------------------------------------------------------- C21
\* C21: when the alias has no target at the time of the switch (the GET
\* answers an empty index list), switchAzureAISearchAlias still points the
\* alias at the new collection, issues no delete, and ends without error.
C21_NoTargetSwitch ==
  (run.aliasRead /\ oldIndexName = NoIndex) =>
    /\ pc \in {"sleep", "deleteIndex", "done"} => alias = collectionName
    /\ pc # "deleteIndex"
    /\ pc = "failed" => run.failedAt # "deleteIndex"

\* ------------------------------------------------------------------- C22
\* Two names that are equal when the case of their letters is ignored.
C22_CasePairs == {<<"T", "t">>, <<"E", "e">>, <<"S", "s">>}
C22_SameIgnoringCase(n, m) ==
  /\ Len(n) = Len(m)
  /\ \A i \in 1..Len(n) :
       n[i] = m[i] \/ <<n[i], m[i]>> \in C22_CasePairs \/ <<m[i], n[i]>> \in C22_CasePairs

\* What a call did, apart from the name it was given.
C22_Effect(outcomes) ==
  {[existing |-> o.existing, held |-> o.held, returned |-> o.returned,
    thrown |-> o.thrown] : o \in outcomes}

\* C22: collection names are case-insensitive across the adapter's
\* operations.  In every state of the service and for all names N, M equal
\* ignoring case: every operation does and returns the same for M as for N;
\* once createCollection(N) has succeeded hasCollection(M) returns true, and
\* once dropCollection(M) has succeeded hasCollection(N) returns false,
\* whenever the index client answers; hasCollection returns false on a 404
\* only and rethrows every other error.
C22_NamesIgnoreCase ==
  /\ \A n, m \in CollectionNames :
       C22_SameIgnoringCase(n, m) =>
         /\ C22_Effect(createCollection(names, m)) = C22_Effect(createCollection(names, n))
         /\ C22_Effect(dropCollection(names, m)) = C22_Effect(dropCollection(names, n))
         /\ C22_Effect(hasCollection(names, m)) = C22_Effect(hasCollection(names, n))
         /\ C22_Effect(listFilePaths(names, m)) = C22_Effect(listFilePaths(names, n))
         /\ \A doc \in InsertedDocuments :
              C22_Effect(insertInto(names, m, doc)) = C22_Effect(insertInto(names, n, doc))
         /\ \A path \in RelativePaths :
              C22_Effect(queryOn(names, m, path)) = C22_Effect(queryOn(names, n, path))
         /\ \A id \in Ids :
              C22_Effect(deleteFrom(names, m, id)) = C22_Effect(deleteFrom(names, n, id))
         /\ \A c \in createCollection(names, n) :
              c.thrown = 0 =>
                /\ \E h \in hasCollection(c, m) : h.returned = "true"
                /\ \A h \in hasCollection(c, m) : h.thrown = 0 => h.returned = "true"
         /\ \A d \in dropCollection(names, m) :
              d.thrown = 0 =>
                /\ \E h \in hasCollection(d, n) : h.returned = "false"
                /\ \A h \in hasCollection(d, n) : h.thrown = 0 => h.returned = "false"
  /\ names.op = "hasCollection" =>
       /\ names.returned = "false" <=> names.statusCode = 404
       /\ names.returned = "true" <=> names.statusCode = 0
       /\ names.statusCode \notin {0, 404} =>
            names.thrown = names.statusCode /\ names.returned = "none"

\* hasCollection under a name in capitals answers true for the index that
\* createCollection made and insert filled.
C22_Witness ==
  /\ names.op = "hasCollection"
  /\ names.name = <<"T", "E", "S", "T">>
  /\ names.returned = "true"
  /\ names.held[<<"t", "e", "s", "t">>] # {}

====
